---- MODULE Spec2Model ----
(***************************************************************************)
(* Model of src/components/MeetingRoom.tsx: the in-call code-execution     *)
(* panel (handleRunCode and its Piston request), the keyboard lockout      *)
(* (handleKeyDown), the single-slot alert with its 3000 ms expiry timer,   *)
(* and the two visibility flags.                                           *)
(*                                                                         *)
(* React semantics used: the setState calls of one handler are batched and *)
(* committed together with the effects they trigger, so one handler is one *)
(* action; a setState with an Object.is-equal value does not re-render and *)
(* does not re-run an effect that depends on it; setState on an unmounted  *)
(* component changes nothing.                                              *)
(*                                                                         *)
(* Not modelled: the call layout (setLayout) and the calling-state gate    *)
(* that renders the Loader; they only remove user actions, and no state    *)
(* of the panel depends on them.                                           *)
(*                                                                         *)
(* Strings that the code inspects character by character (the editor text, *)
(* the languageMap values) are sequences of chunks; strings it only copies *)
(* or concatenates are TLA+ strings.                                       *)
(***************************************************************************)
EXTENDS Integers, Sequences, FiniteSets, TLC

\* ---------------------------------------------------------------- bounds
MaxLen == 2          \* longest editor text, in characters
MaxCalls == 2        \* most handleRunCode invocations awaiting at once

\* ------------------------------------------------------------ JS values
NULL == "null"
Undefined == "undefined"

\* ----------------------------------------------------------- editor text
Alphabet == {" ", "a"}
IsWhiteSpace(c) == c \in {" ", "\t", "\n", "\r"}
Texts == UNION {[1..n -> Alphabet] : n \in 0..MaxLen}

RECURSIVE TrimStart(_)
TrimStart(s) ==
  IF s # <<>> /\ IsWhiteSpace(Head(s)) THEN TrimStart(Tail(s)) ELSE s

RECURSIVE TrimEnd(_)
TrimEnd(s) ==
  IF s # <<>> /\ IsWhiteSpace(s[Len(s)])
  THEN TrimEnd(SubSeq(s, 1, Len(s) - 1))
  ELSE s

Trim(s) == TrimEnd(TrimStart(s))

sampleAppContent == <<"a">>

\* ------------------------------------------------------ language registry
\* A JavaScript value the lookup can yield: a string (as chunks, so that
\* split can look for the separator), a function, or undefined.
JSString(chunks) == [type |-> "string", chunks |-> chunks]
JSFunction == [type |-> "function", chunks |-> <<>>]
JSUndefined == [type |-> "undefined", chunks |-> <<>>]

Truthy(v) ==
  \/ v.type = "function"
  \/ v.type = "string" /\ v.chunks # <<>>

languageMap_PythonWrongVersion ==
  [javascript |-> JSString(<<"node", "@", "18.15.0">>),
   typescript |-> JSString(<<"node", "@", "18.15.0">>),
   python     |-> JSString(<<"python", "@", "3.10">>),
   java       |-> JSString(<<"java", "@", "15.0.2">>),
   cpp        |-> JSString(<<"cpp", "@", "10.2.0">>),
   html       |-> JSString(<<"html">>),
   css        |-> JSString(<<"css">>)]

languageMap ==
  [javascript |-> JSString(<<"node", "@", "18.15.0">>),
   typescript |-> JSString(<<"node", "@", "18.15.0">>),
   python     |-> JSString(<<"python", "@", "3.10.0">>),
   java       |-> JSString(<<"java", "@", "15.0.2">>),
   cpp        |-> JSString(<<"cpp", "@", "10.2.0">>),
   html       |-> JSString(<<"html">>),
   css        |-> JSString(<<"css">>)]

\* languageMap is an object literal: a key it does not own is looked up on
\* Object.prototype, where these names are bound to functions.
ObjectPrototypeKeys == {"constructor"}

LanguageOptions ==
  {"javascript", "typescript", "python", "java", "cpp", "html", "css"}

\* Keys handleLanguageChange(newLanguage: string) can be handed.
LanguageKeys == LanguageOptions \cup {"ruby", "constructor"}

\* obj[key] on a plain object
GetProperty(obj, key) ==
  IF key \in DOMAIN obj THEN obj[key]
  ELSE IF key \in ObjectPrototypeKeys THEN JSFunction
  ELSE JSUndefined

DefaultLanguageVersion == JSString(<<"node", "@", "18.15.0">>)

\* languageMap[language] || 'node@18.15.0'
languageVersionOf(lng) ==
  LET v == GetProperty(languageMap, lng)
  IN  IF Truthy(v) THEN v ELSE DefaultLanguageVersion

\* languageVersion.split is a function only when languageVersion is a string
HasSplit(v) == v.type = "string"

RECURSIVE SplitAcc(_, _, _)
SplitAcc(s, sep, cur) ==
  IF s = <<>> THEN <<cur>>
  ELSE IF Head(s) = sep THEN <<cur>> \o SplitAcc(Tail(s), sep, "")
  ELSE SplitAcc(Tail(s), sep, cur \o Head(s))

split(v, sep) == SplitAcc(v.chunks, sep, "")

\* const [lang, version] = ...: a missing element is undefined
Destructure(parts, i) == IF i <= Len(parts) THEN parts[i] ELSE Undefined

\* ------------------------------------------------------ request building
CompileTimeout == 10000
RunTimeout == 3000

FileName_PythonPy(lang) ==
  "main." \o (IF lang = "cpp" THEN "cpp"
              ELSE IF lang = "java" THEN "java"
              ELSE IF lang = "python" THEN "py" ELSE "js")

FileName(lang) ==
  "main." \o (IF lang = "cpp" THEN "cpp"
              ELSE IF lang = "java" THEN "java" ELSE "js")

RequestObject(lang, version, content) ==
  [language |-> lang,
   version |-> version,
   files |-> <<[name |-> FileName(lang), content |-> content]>>,
   stdin |-> "",
   args |-> <<>>,
   compile_timeout |-> CompileTimeout,
   run_timeout |-> RunTimeout]

\* JSON.stringify leaves out the properties whose value is undefined.
\* Only the two destructured values can be undefined here.
JSONstringify(obj) ==
  [k \in {f \in DOMAIN obj :
            ~(f \in {"language", "version"} /\ obj[f] = Undefined)}
     |-> obj[k]]

BuildRequest(lng, content) ==
  LET parts == split(languageVersionOf(lng), "@")
  IN  JSONstringify(RequestObject(Destructure(parts, 1),
                                  Destructure(parts, 2), content))

\* ------------------------------------------------- responses of the service
NoRun == [present |-> FALSE, stdout |-> "", stderr |-> ""]
RunOf(so, se) == [present |-> TRUE, stdout |-> so, stderr |-> se]

\* What response.json() finds in the body: text that is not JSON, the JSON
\* value null, or a JSON object with an optional run and an optional message.
UnreadableBodies ==
  {[json |-> "invalid", run |-> NoRun, message |-> Undefined],
   [json |-> "null", run |-> NoRun, message |-> Undefined]}
RunBodies ==
  {[json |-> "object", run |-> RunOf(so, se), message |-> Undefined] :
     so \in {"", "2\n"}, se \in {"", "err"}}
MessageBodies ==
  {[json |-> "object", run |-> NoRun, message |-> m] :
     m \in {Undefined, "", "boom"}}

\* The service answers 2xx with a run, or an error status with a message;
\* either status can also carry a body that is unreadable or lacks the field.
Responses ==
  [ok : {TRUE},
   body : UnreadableBodies \cup RunBodies
          \cup {b \in MessageBodies : b.message = Undefined}]
  \cup [ok : {FALSE}, body : UnreadableBodies \cup MessageBodies]

\* Messages of the exceptions the platform throws
FetchErrorMessage == "Failed to fetch"
SyntaxErrorMessage == "Unexpected token < in JSON at position 0"
NullReadMessage(prop) ==
  "Cannot read properties of null (reading '" \o prop \o "')"
UndefinedReadMessage(prop) ==
  "Cannot read properties of undefined (reading '" \o prop \o "')"

Returned(text) == [thrown |-> FALSE, text |-> text]
Thrown(message) == [thrown |-> TRUE, text |-> message]

\* result.run.stdout || result.run.stderr || 'No output'
OutputText_StderrFirst(run) ==
  IF run.stderr # "" THEN run.stderr
  ELSE IF run.stdout # "" THEN run.stdout
  ELSE "No output"

OutputText(run) ==
  IF run.stdout # "" THEN run.stdout
  ELSE IF run.stderr # "" THEN run.stderr
  ELSE "No output"

\* errorData.message || 'Unknown error'
ErrorDataMessage(body) ==
  IF body.message # Undefined /\ body.message # ""
  THEN body.message
  ELSE "Unknown error"

\* The body of the try block from the resolution of fetch on: what it
\* hands to setOutput, or the message of what it throws.
HandleResponse(r) ==
  IF r.body.json = "invalid" THEN Thrown(SyntaxErrorMessage)
  ELSE IF ~r.ok THEN
    IF r.body.json = "null" THEN Thrown(NullReadMessage("message"))
    ELSE Thrown("Failed to execute code: " \o ErrorDataMessage(r.body))
  ELSE IF r.body.json = "null" THEN Thrown(NullReadMessage("run"))
  ELSE IF ~r.body.run.present THEN Thrown(UndefinedReadMessage("stdout"))
  ELSE Returned(OutputText(r.body.run))

\* catch: setOutput(`Error: ${error.message}`)
CatchOutput_NoPrefix(message) == message

CatchOutput(message) == "Error: " \o message

SettledOutput(outcome) ==
  IF outcome.thrown THEN CatchOutput(outcome.text) ELSE outcome.text

\* ------------------------------------------------------------- the alert
NoticeMs == 3000
TickMs == NoticeMs \div 2
NoTimer == -1
NoEnqueue == -1

EscapeMessage == "Escape key is disabled during the meeting."
CtrlTabMessage == "Ctrl+Tab is disabled during the meeting."
AltTabMessage ==
  "Alt+Tab is disabled during the meeting (browser may override)."

KeyEvents == [key : {"Escape", "Tab", "a"}, ctrlKey : BOOLEAN, altKey : BOOLEAN]

\* One `if` of handleKeyDown: preventDefault and setAlertMessage(message)
Intercept(cond, message, st) ==
  IF cond
  THEN [defaultPrevented |-> TRUE,
        alertMessage |-> message,
        setAlertCalls |-> st.setAlertCalls + 1]
  ELSE st

handleKeyDown_CtrlAnyKey(event, alert) ==
  LET s0 == [defaultPrevented |-> FALSE, alertMessage |-> alert,
             setAlertCalls |-> 0]
      s1 == Intercept(event.key = "Escape", EscapeMessage, s0)
      s2 == Intercept(event.ctrlKey, CtrlTabMessage, s1)
      s3 == Intercept(event.altKey /\ event.key = "Tab", AltTabMessage, s2)
  IN  s3

handleKeyDown(event, alert) ==
  LET s0 == [defaultPrevented |-> FALSE, alertMessage |-> alert,
             setAlertCalls |-> 0]
      s1 == Intercept(event.key = "Escape", EscapeMessage, s0)
      s2 == Intercept(event.ctrlKey /\ event.key = "Tab", CtrlTabMessage, s1)
      s3 == Intercept(event.altKey /\ event.key = "Tab", AltTabMessage, s2)
  IN  s3

\* The body of the effect on [alertMessage]: the delay of the timer it sets
NoticeTimer_Never(message) == NoTimer

NoticeTimer(message) == IF message # NULL THEN NoticeMs ELSE NoTimer

\* useEffect(..., [alertMessage]): when the dependency changed, the cleanup
\* clears the old timer and the effect runs again; otherwise nothing happens.
AlertEffect(old, new, oldTimer) ==
  IF new # old THEN NoticeTimer(new) ELSE oldTimer

\* ------------------------------------------------------------------ state
VARIABLES
  showParticipants,  \* useState(false)
  showCodeEditor,    \* useState(false)
  codeContent,       \* useState(sampleAppContent)
  language,          \* useState('javascript')
  output,            \* useState('')
  isRunning,         \* useState(false)
  alertMessage,      \* useState(null)
  calls,             \* the handleRunCode invocations suspended at an await
  timer,             \* ms left on the pending setTimeout, or NoTimer
  sinceEnqueue,      \* ms since the last setAlertMessage(message), capped;
                     \* NoEnqueue before the first
  mounted            \* the component is mounted

vars == <<showParticipants, showCodeEditor, codeContent, language, output,
          isRunning, alertMessage, calls, timer, sinceEnqueue, mounted>>

runVars == <<output, isRunning, calls>>
alertVars == <<alertMessage, timer, sinceEnqueue>>
visibilityVars == <<showParticipants, showCodeEditor>>

InitWith(lng) ==
  /\ showParticipants = FALSE
  /\ showCodeEditor = FALSE
  /\ codeContent = sampleAppContent
  /\ language = lng
  /\ output = ""
  /\ isRunning = FALSE
  /\ alertMessage = NULL
  /\ calls = <<>>
  /\ timer = NoTimer
  /\ sinceEnqueue = NoEnqueue
  /\ mounted = TRUE

Init == InitWith("javascript")

\* The room with any language key selected, to exercise the registry lookup
InitAnyLanguage == \E lng \in LanguageKeys : InitWith(lng)

\* ----------------------------------------------------------------- render
\* className 'hidden': !showCodeEditor
PanelVisible == showCodeEditor
\* 'show-block': showParticipants && !showCodeEditor
ParticipantsVisible_IgnoresPanel == showParticipants

ParticipantsVisible == showParticipants /\ ~showCodeEditor
\* <select disabled={isRunning}>
LanguageSelectEnabled_Always == TRUE

LanguageSelectEnabled == ~isRunning
\* run button disabled={isRunning}
RunButtonEnabled_Always == TRUE

RunButtonEnabled == ~isRunning
\* close button disabled={isRunning}
CloseButtonEnabled == ~isRunning
\* {output || 'Run the code to see output'}
Displayed == IF output # "" THEN output ELSE "Run the code to see output"
\* {alertMessage && <div>...}
AlertVisible == alertMessage # NULL

\* --------------------------------------------------------- the code panel
\* if (!codeContent.trim())
NoCodeToRun_NoTrim(text) == text = <<>>

NoCodeToRun(text) == Trim(text) = <<>>

\* handleRunCode up to its first await
handleRunCode ==
  IF NoCodeToRun(codeContent)
  THEN /\ output' = "Error: No code to run"
       /\ UNCHANGED <<isRunning, calls>>
  ELSE /\ isRunning' = TRUE
       /\ output' = "Running..."
       /\ IF HasSplit(languageVersionOf(language))
          THEN calls' = Append(calls,
                          [pc |-> "fetch",
                           request |-> BuildRequest(language, codeContent),
                           response |-> NULL])
          ELSE calls' = calls   \* TypeError before the try: nothing awaits

RunClick ==
  /\ mounted /\ PanelVisible /\ RunButtonEnabled
  /\ Len(calls) < MaxCalls
  /\ handleRunCode
  /\ UNCHANGED <<codeContent, language, alertVars, visibilityVars, mounted>>

\* handleLanguageChange, from the select's change event
LanguageChange_ResetsSource(newLanguage) ==
  /\ mounted /\ PanelVisible /\ LanguageSelectEnabled
  /\ newLanguage # language
  /\ language' = newLanguage
  /\ output' = ""
  /\ codeContent' = sampleAppContent
  /\ UNCHANGED <<isRunning, calls, alertVars, visibilityVars, mounted>>

LanguageChange(newLanguage) ==
  /\ mounted /\ PanelVisible /\ LanguageSelectEnabled
  /\ newLanguage # language
  /\ language' = newLanguage
  /\ output' = ""
  /\ UNCHANGED <<codeContent, isRunning, calls, alertVars, visibilityVars,
                 mounted>>

\* What the editor hands to onChange: a string or undefined
EditorValues ==
  {[defined |-> FALSE, text |-> <<>>]}
  \cup {[defined |-> TRUE, text |-> t] : t \in Texts}

\* Editor onChange: setCodeContent(value || '')
EditorChange(value) ==
  /\ mounted /\ PanelVisible
  /\ codeContent' = IF value.defined THEN value.text ELSE <<>>
  /\ codeContent' # codeContent
  /\ UNCHANGED <<language, runVars, alertVars, visibilityVars, mounted>>

RemoveAt(s, i) == SubSeq(s, 1, i - 1) \o SubSeq(s, i + 1, Len(s))

\* catch / finally of handleRunCode; setState after unmount does nothing
Settle(i, outcome) ==
  /\ calls' = RemoveAt(calls, i)
  /\ IF mounted
     THEN /\ output' = SettledOutput(outcome)
          /\ isRunning' = FALSE
     ELSE UNCHANGED <<output, isRunning>>
  /\ UNCHANGED <<codeContent, language, alertVars, visibilityVars, mounted>>

\* await fetch(...) resolves with a response
FetchResolve(i, r) ==
  /\ i \in 1..Len(calls) /\ calls[i].pc = "fetch"
  /\ calls' = [calls EXCEPT ![i] =
                 [pc |-> "json", request |-> NULL, response |-> r]]
  /\ UNCHANGED <<showParticipants, showCodeEditor, codeContent, language,
                 output, isRunning, alertVars, mounted>>

\* await fetch(...) rejects
FetchReject(i) ==
  /\ i \in 1..Len(calls) /\ calls[i].pc = "fetch"
  /\ Settle(i, Thrown(FetchErrorMessage))

\* await response.json() settles and the rest of the try block runs
JsonSettle(i) ==
  /\ i \in 1..Len(calls) /\ calls[i].pc = "json"
  /\ Settle(i, HandleResponse(calls[i].response))

\* ------------------------------------------------------------- visibility
\* setShowParticipants((prev) => !prev)
ToggleParticipants ==
  /\ mounted
  /\ showParticipants' = ~showParticipants
  /\ UNCHANGED <<showCodeEditor, codeContent, language, runVars, alertVars,
                 mounted>>

\* setShowCodeEditor((prev) => !prev)
ToggleCodeEditor ==
  /\ mounted
  /\ showCodeEditor' = ~showCodeEditor
  /\ UNCHANGED <<showParticipants, codeContent, language, runVars, alertVars,
                 mounted>>

\* the panel's close button: setShowCodeEditor(false)
ClosePanel ==
  /\ mounted /\ PanelVisible /\ CloseButtonEnabled
  /\ showCodeEditor' = FALSE
  /\ UNCHANGED <<showParticipants, codeContent, language, runVars, alertVars,
                 mounted>>

\* CallParticipantsList onClose: setShowParticipants(false)
CloseParticipants ==
  /\ mounted /\ ParticipantsVisible
  /\ showParticipants' = FALSE
  /\ UNCHANGED <<showCodeEditor, codeContent, language, runVars, alertVars,
                 mounted>>

\* ---------------------------------------------------------------- lockout
\* A keydown reaches the document while the listener is attached
KeyDown(event) ==
  /\ mounted
  /\ LET r == handleKeyDown(event, alertMessage)
     IN  /\ alertMessage' = r.alertMessage
         /\ timer' = AlertEffect(alertMessage, r.alertMessage, timer)
         /\ sinceEnqueue' = IF r.setAlertCalls > 0 THEN 0 ELSE sinceEnqueue
  /\ UNCHANGED <<codeContent, language, runVars, visibilityVars, mounted>>

\* The timer's callback: setAlertMessage(null)
TimerFire ==
  /\ timer = 0
  /\ alertMessage' = NULL
  /\ timer' = AlertEffect(alertMessage, NULL, NoTimer)
  /\ UNCHANGED <<sinceEnqueue, codeContent, language, runVars,
                 visibilityVars, mounted>>

Min(a, b) == IF a < b THEN a ELSE b

\* TickMs of time pass; a timer that is due may fire late but never early.
\* Once unmounted with no timer pending, nothing is left to observe time.
Tick ==
  /\ mounted \/ timer # NoTimer
  /\ timer' = IF timer = NoTimer THEN NoTimer
              ELSE IF timer >= TickMs THEN timer - TickMs ELSE 0
  /\ sinceEnqueue' = IF sinceEnqueue = NoEnqueue THEN NoEnqueue
                     ELSE Min(sinceEnqueue + TickMs, NoticeMs)
  /\ <<timer', sinceEnqueue'>> # <<timer, sinceEnqueue>>
  /\ UNCHANGED <<alertMessage, codeContent, language, runVars,
                 visibilityVars, mounted>>

\* Unmount: the effects' cleanups remove the listener and clear the timer
Unmount_KeepsTimer ==
  /\ mounted
  /\ mounted' = FALSE
  /\ UNCHANGED <<alertMessage, timer, sinceEnqueue, codeContent, language,
                 runVars, visibilityVars>>

Unmount ==
  /\ mounted
  /\ mounted' = FALSE
  /\ timer' = NoTimer
  /\ UNCHANGED <<alertMessage, sinceEnqueue, codeContent, language, runVars,
                 visibilityVars>>

\* ------------------------------------------------------------------- spec
Next ==
  \/ RunClick
  \/ \E l \in LanguageOptions : LanguageChange(l)
  \/ \E v \in EditorValues : EditorChange(v)
  \/ \E i \in 1..MaxCalls, r \in Responses : FetchResolve(i, r)
  \/ \E i \in 1..MaxCalls : FetchReject(i)
  \/ \E i \in 1..MaxCalls : JsonSettle(i)
  \/ ToggleParticipants
  \/ ToggleCodeEditor
  \/ ClosePanel
  \/ CloseParticipants
  \/ \E e \in KeyEvents : KeyDown(e)
  \/ TimerFire
  \/ Tick
  \/ Unmount

Spec == Init /\ [][Next]_vars

\* The same room started with any language key
SpecAnyLanguage == InitAnyLanguage /\ [][Next]_vars

\* The event loop keeps running: time passes, a due timer fires
SpecLive == Init /\ [][Next]_vars /\ WF_vars(Tick) /\ WF_vars(TimerFire)

TypeOK ==
  /\ showParticipants \in BOOLEAN /\ showCodeEditor \in BOOLEAN
  /\ codeContent \in Texts
  /\ language \in LanguageKeys
  /\ isRunning \in BOOLEAN
  /\ alertMessage \in {NULL, EscapeMessage, CtrlTabMessage, AltTabMessage}
  /\ Len(calls) <= MaxCalls
  /\ timer \in {NoTimer} \cup 0..NoticeMs
  /\ sinceEnqueue \in {NoEnqueue} \cup 0..NoticeMs
  /\ mounted \in BOOLEAN

\* ===================================================================
\* Properties
\* ===================================================================

WhitespaceOnly(text) == \A k \in 1..Len(text) : IsWhiteSpace(text[k])

\* C1: while isRunning, submitting is a no-op: at most one handleRunCode
\* invocation is ever awaiting, no step taken while isRunning adds one, and
\* the displayed result changes while isRunning only in the step that
\* settles the awaiting invocation.
C1_SingleFlight ==
  [][/\ Len(calls) <= 1
     /\ Len(calls') <= 1
     /\ isRunning => Len(calls') <= Len(calls)
     /\ (isRunning /\ Displayed' # Displayed) =>
           (Len(calls) = 1 /\ calls' = <<>>)]_vars

C1_Witness ==
  /\ mounted /\ PanelVisible /\ isRunning
  /\ Len(calls) = 1 /\ calls[1].pc = "fetch"
  /\ ~WhitespaceOnly(codeContent)

\* C2: a run click on an empty or whitespace-only text issues no request,
\* leaves isRunning false and sets the result to 'Error: No code to run';
\* no step taken from an idle room with such a text starts a run.
C2_BlankNeverRuns ==
  [][/\ (RunClick /\ WhitespaceOnly(codeContent)) =>
           /\ calls' = calls
           /\ isRunning' = FALSE
           /\ output' = "Error: No code to run"
           /\ Displayed' = "Error: No code to run"
     /\ (WhitespaceOnly(codeContent) /\ ~isRunning) =>
           (~isRunning' /\ calls' = calls /\ output' # "Running...")]_vars

C2_Witness ==
  /\ output = "Error: No code to run"
  /\ ~isRunning /\ calls = <<>>
  /\ Len(codeContent) = MaxLen /\ WhitespaceOnly(codeContent)

\* A success response whose body is an object with a run
SuccessWithRun(r) == r.ok /\ r.body.json = "object" /\ r.body.run.present

\* C3: when a success response with a run is processed, the displayed
\* result is stdout if stdout is non-empty, else stderr if stderr is
\* non-empty, else 'No output'.
C3_ReductionOrder ==
  [][\A i \in 1..MaxCalls :
       (JsonSettle(i) /\ mounted /\ SuccessWithRun(calls[i].response)) =>
          LET run == calls[i].response.body.run
          IN  /\ run.stdout # "" => Displayed' = run.stdout
              /\ (run.stdout = "" /\ run.stderr # "") =>
                    Displayed' = run.stderr
              /\ (run.stdout = "" /\ run.stderr = "") =>
                    Displayed' = "No output"]_vars

C3_Witness == mounted /\ ~isRunning /\ calls = <<>> /\ Displayed = "err"

\* C4: whenever isRunning holds, the displayed result is 'Running...'.
C4_PlaceholderWhileRunning == isRunning => Displayed = "Running..."

C4_Witness ==
  /\ mounted /\ isRunning /\ Displayed = "Running..."
  /\ Len(calls) = 1 /\ calls[1].pc = "json"

\* C5: the step that settles a call in the mounted room (fetch rejected, or
\* the response processed) leaves isRunning false, leaves no call awaiting,
\* and sets the result to the output text or to 'Error: ' followed by the
\* message thrown; the mounted room is never running with nothing awaiting.
C5_SettleReturnsToIdle ==
  [][/\ \A i \in 1..MaxCalls :
          /\ (FetchReject(i) /\ mounted) =>
                /\ isRunning' = FALSE /\ calls' = <<>>
                /\ output' = "Error: " \o FetchErrorMessage
          /\ (JsonSettle(i) /\ mounted) =>
                LET o == HandleResponse(calls[i].response)
                IN  /\ isRunning' = FALSE /\ calls' = <<>>
                    /\ output' = IF o.thrown THEN "Error: " \o o.text
                                 ELSE o.text
     /\ (mounted' /\ isRunning') => Len(calls') = 1]_vars

C5_Witness ==
  /\ mounted /\ ~isRunning /\ calls = <<>>
  /\ output = "Error: " \o SyntaxErrorMessage

\* A keydown for which handleKeyDown calls setAlertMessage
Enqueues(e) == handleKeyDown(e, alertMessage).setAlertCalls > 0

\* C6: every enqueue, also one repeating the pending message, restarts the
\* 3000 ms expiry, and the alert is never cleared less than 3000 ms after
\* the most recent enqueue.
C6_EveryEnqueueRestartsExpiry ==
  [][/\ \A e \in KeyEvents :
          (KeyDown(e) /\ Enqueues(e)) =>
             (alertMessage' # NULL /\ timer' = NoticeMs)
     /\ (alertMessage # NULL /\ alertMessage' = NULL) =>
           sinceEnqueue >= NoticeMs]_vars

\* C7: in the mounted room an alert that is showing is eventually cleared,
\* unless another enqueue comes first (sinceEnqueue back at 0).
C7_AlertEventuallyCleared ==
  (mounted /\ alertMessage # NULL /\ sinceEnqueue > 0)
     ~> (alertMessage = NULL \/ ~mounted \/ sinceEnqueue = 0)

C7_Witness ==
  mounted /\ alertMessage = NULL /\ timer = NoTimer /\ sinceEnqueue = NoticeMs

\* A run click that gets past the empty-text check with `lng` selected
Submits(lng) == RunClick /\ language = lng /\ ~WhitespaceOnly(codeContent)

\* The request of the call a run click has just suspended
NewRequest == calls'[Len(calls')].request

RequestIs(req, lang, version, name) ==
  /\ "language" \in DOMAIN req /\ req.language = lang
  /\ "version" \in DOMAIN req /\ req.version = version
  /\ Len(req.files) = 1 /\ req.files[1].name = name

StdoutShownVerbatim(lng) ==
  \A i \in 1..MaxCalls :
    (/\ JsonSettle(i) /\ mounted /\ language = lng
     /\ SuccessWithRun(calls[i].response)
     /\ calls[i].response.body.run.stdout # "") =>
       Displayed' = calls[i].response.body.run.stdout

\* C8 as stated: a python submission requests python 3.10.0 with the single
\* file main.py, and a success response's non-empty stdout is displayed
\* verbatim.
C8_PythonRequestMainPy ==
  [][/\ Submits("python") =>
          /\ Len(calls') = Len(calls) + 1
          /\ RequestIs(NewRequest, "python", "3.10.0", "main.py")
     /\ StdoutShownVerbatim("python")]_vars

\* C8 amended: a python submission requests python 3.10.0 with the single
\* file main.js (whose content is the text submitted), and a success
\* response's non-empty stdout is displayed verbatim.
C8_PythonRequestMainJs ==
  [][/\ Submits("python") =>
          /\ Len(calls') = Len(calls) + 1
          /\ RequestIs(NewRequest, "python", "3.10.0", "main.js")
          /\ NewRequest.files[1].content = codeContent
     /\ StdoutShownVerbatim("python")]_vars

C8_Witness ==
  /\ mounted /\ language = "python" /\ ~isRunning /\ calls = <<>>
  /\ Displayed = "2\n"

IsEscape(e) == e.key = "Escape"
IsCtrlTab(e) == e.ctrlKey /\ e.key = "Tab"
IsAltTab(e) == e.altKey /\ e.key = "Tab"

Intercepted(e, message) ==
  LET r == handleKeyDown(e, alertMessage)
  IN  /\ r.defaultPrevented
      /\ r.setAlertCalls = 1
      /\ alertMessage' = message

NotIntercepted(e) ==
  LET r == handleKeyDown(e, alertMessage)
  IN  /\ ~r.defaultPrevented
      /\ r.setAlertCalls = 0
      /\ UNCHANGED alertVars

DistinctMessages ==
  Cardinality({NULL, EscapeMessage, CtrlTabMessage, AltTabMessage}) = 4

\* C10 as stated: a keydown matching one of the three combinations is
\* prevented and enqueues exactly one alert, with that combination's
\* message; any other keydown prevents nothing and leaves the alert alone.
C10_EachCombinationItsMessage ==
  [][\A e \in KeyEvents :
       KeyDown(e) =>
         /\ DistinctMessages
         /\ IsEscape(e) => Intercepted(e, EscapeMessage)
         /\ IsCtrlTab(e) => Intercepted(e, CtrlTabMessage)
         /\ IsAltTab(e) => Intercepted(e, AltTabMessage)
         /\ ~(IsEscape(e) \/ IsCtrlTab(e) \/ IsAltTab(e)) =>
               NotIntercepted(e)]_vars

\* C10 amended: a keydown matching exactly one of the three combinations is
\* prevented and enqueues exactly one alert, with that combination's
\* message; a Tab keydown with both Ctrl and Alt is prevented, enqueues
\* twice and leaves the Alt+Tab message; any other keydown prevents nothing
\* and leaves the alert alone.
C10_ExactlyOneCombination ==
  [][alertVars' # alertVars =>
       /\ DistinctMessages
       /\ \A e \in KeyEvents :
            KeyDown(e) =>
              IF IsEscape(e) THEN Intercepted(e, EscapeMessage)
              ELSE IF IsCtrlTab(e) /\ IsAltTab(e) THEN
                LET r == handleKeyDown(e, alertMessage)
                IN  /\ r.defaultPrevented
                    /\ r.setAlertCalls = 2
                    /\ alertMessage' = AltTabMessage
              ELSE IF IsCtrlTab(e) THEN Intercepted(e, CtrlTabMessage)
              ELSE IF IsAltTab(e) THEN Intercepted(e, AltTabMessage)
              ELSE NotIntercepted(e)]_vars

C10_Witness ==
  mounted /\ alertMessage = CtrlTabMessage /\ sinceEnqueue = 0
    /\ timer = NoticeMs

\* The response the call at i is about to process
ResponseAt(i) == calls[i].response

\* C11: when an error-status response whose body parses as JSON is
\* processed, the result is 'Error: Failed to execute code: ' followed by
\* the body's message, or by 'Unknown error' when there is no message or an
\* empty one.
C11_ErrorStatusShowsMessage ==
  [][\A i \in 1..MaxCalls :
       (/\ JsonSettle(i) /\ mounted
        /\ ~ResponseAt(i).ok
        /\ ResponseAt(i).body.json # "invalid") =>
          LET m == ResponseAt(i).body.message
          IN  Displayed' = "Error: Failed to execute code: "
                             \o (IF m # Undefined /\ m # "" THEN m
                                 ELSE "Unknown error")]_vars

\* C12: when an error-status response whose body cannot be parsed is
\* processed, the result is 'Error: Failed to execute code: Unknown error'.
C12_UnparseableErrorBodyIsUnknownError ==
  [][\A i \in 1..MaxCalls :
       (/\ JsonSettle(i) /\ mounted
        /\ ~ResponseAt(i).ok
        /\ ResponseAt(i).body.json = "invalid") =>
          Displayed' = "Error: Failed to execute code: Unknown error"]_vars

\* C13: a language switch (possible only while idle) clears the result, so
\* that the panel shows no result, and leaves the source text as it is; the
\* source text changes only in an editor change notification.
C13_LanguageSwitchKeepsSource ==
  [][/\ \A l \in LanguageOptions :
          LanguageChange(l) =>
            /\ ~isRunning /\ ~isRunning'
            /\ output' = ""
            /\ Displayed' = "Run the code to see output"
            /\ codeContent' = codeContent
     /\ codeContent' # codeContent =>
          \E v \in EditorValues : EditorChange(v)]_vars

C13_Witness ==
  /\ mounted /\ ~isRunning /\ output = ""
  /\ language = "python"
  /\ Len(codeContent) = MaxLen /\ ~WhitespaceOnly(codeContent)

\* C14: the selected language does not change while isRunning; the request
\* awaiting its response is the one the selected language builds; and a
\* change of language clears the result, so a result on display comes from
\* a run in the selected language.
C14_LanguageFixedWhileRunning ==
  [][/\ isRunning => language' = language
     /\ language' # language => (~isRunning /\ output' = "")
     /\ (Len(calls') = 1 /\ calls'[1].pc = "fetch") =>
          calls'[1].request =
            BuildRequest(language', calls'[1].request.files[1].content)]_vars

C14_Witness ==
  /\ mounted /\ isRunning /\ language = "cpp"
  /\ Len(calls) = 1 /\ calls[1].pc = "fetch"
  /\ calls[1].request.language = "cpp"

\* C15: every request a run click issues has exactly one file, named
\* main.cpp for runtime cpp, main.java for runtime java and main.js for any
\* other runtime, holding the source text of that moment; stdin is empty,
\* args is empty, compile_timeout is 10000 and run_timeout is 3000.
C15_RequestShape ==
  [][/\ (RunClick /\ ~WhitespaceOnly(codeContent)) =>
          Len(calls') = Len(calls) + 1
     /\ Len(calls') > Len(calls) =>
          LET req == NewRequest
              ext == IF req.language = "cpp" THEN "cpp"
                     ELSE IF req.language = "java" THEN "java" ELSE "js"
          IN  /\ Len(req.files) = 1
              /\ req.files[1].name = "main." \o ext
              /\ req.files[1].content = codeContent
              /\ req.stdin = ""
              /\ req.args = <<>>
              /\ req.compile_timeout = 10000
              /\ req.run_timeout = 3000]_vars

C15_Witness ==
  /\ mounted /\ language = "java"
  /\ Len(calls) = 1 /\ calls[1].pc = "fetch"
  /\ calls[1].request.files[1].name = "main.java"
  /\ Len(calls[1].request.files[1].content) = MaxLen

\* C16: the participants list and the code panel are never rendered
\* together; the list is rendered exactly when its flag is on and the
\* panel's flag is off; each toggle negates its own flag and leaves the
\* other one alone.
C16_NeverBothRendered ==
  [][/\ ~(ParticipantsVisible /\ PanelVisible)
     /\ ~(ParticipantsVisible' /\ PanelVisible')
     /\ ParticipantsVisible' <=> (showParticipants' /\ ~showCodeEditor')
     /\ ToggleParticipants =>
          /\ showParticipants' = ~showParticipants
          /\ showCodeEditor' = showCodeEditor
     /\ ToggleCodeEditor =>
          /\ showCodeEditor' = ~showCodeEditor
          /\ showParticipants' = showParticipants]_vars

\* Both flags on: the panel is rendered, the list is not
C16_Witness ==
  /\ mounted /\ showParticipants /\ showCodeEditor
  /\ PanelVisible /\ ~ParticipantsVisible

\* C17: keydowns are handled only while mounted; unmounting cancels a
\* pending expiry timer and leaves the alert as it is; after unmount the
\* alert and its timer never change.
C17_NothingAfterUnmount ==
  [][/\ ~(mounted /\ mounted') =>
          \A e \in KeyEvents : ~KeyDown(e)
     /\ (mounted /\ ~mounted') =>
          (timer' = NoTimer /\ alertMessage' = alertMessage)
     /\ ~mounted =>
          /\ ~mounted'
          /\ timer = NoTimer /\ timer' = NoTimer
          /\ alertMessage' = alertMessage]_vars

\* Unmounted while an alert was showing: its timer is gone
C17_Witness ==
  ~mounted /\ alertMessage = EscapeMessage /\ timer = NoTimer
    /\ sinceEnqueue = TickMs

\* C18: for every language the selector offers, the request a submission
\* builds carries a runtime and a non-empty version.
C18_EveryOptionHasVersion ==
  [][\A lng \in LanguageOptions :
       Submits(lng) =>
          /\ Len(calls') = Len(calls) + 1
          /\ "language" \in DOMAIN NewRequest
          /\ NewRequest.language # ""
          /\ "version" \in DOMAIN NewRequest
          /\ NewRequest.version # ""]_vars

\* C19: while isRunning the code panel stays visible: no step taken in the
\* mounted room while a run is pending hides it.
C19_PanelStaysWhileRunning ==
  [][(mounted /\ isRunning /\ isRunning') =>
        (PanelVisible /\ PanelVisible')]_vars

====
